---- MODULE Spec2Model ----
(***************************************************************************)
(* Model of the claim-intake dialogue of FORGe:                            *)
(*   src/src/core/natural_language_understanding.py  (ConversationalNLU)   *)
(*   src/src/core/speech_to_text.py   (AudioCapture, SpeechToText)         *)
(*   src/src/pipeline.py              (run_call_handler)                   *)
(*   src/src/webapp.py                (WebCallHandler)                     *)
(*                                                                         *)
(* Strings are modelled as sequences of tokens: "" is <<>>, the JSON text  *)
(* "null" is <<"null">>.  Python's None is the one-token sequence None;    *)
(* its token is reserved and never occurs inside a str.  Scores are whole  *)
(* numbers.                                                                *)
(***************************************************************************)
EXTENDS Integers, Sequences, FiniteSets, TLC

VARIABLES
    state,                 \* self.state (a ConversationState member name)
    claim_data,            \* self.claim_data
    frustration_score,     \* self.frustration_score
    conversation_history,  \* self.conversation_history, one speaker tag per line
    confirm_attempts,      \* self.confirm_attempts: <<>> while the attribute is unset
    op,                    \* the operation that produced this state
    user_text,             \* argument of the last process_input call
    svc,                   \* what the understanding service did in the last turn
    svc_calls,             \* number of service invocations made by the last turn
    ret,                   \* dictionary returned by the last process_input call
    completion,            \* value returned by the last _check_claim_completion call
    call_active,           \* call_active of run_call_handler and of WebCallHandler
    waiting_for_callback_choice,  \* WebCallHandler.waiting_for_callback_choice
    n8n_client,            \* TRUE when a webhook client was constructed
    N8N_WEBHOOK_URL,       \* TRUE when the environment variable is set
    webhook_posts,         \* post_incident_from_dict calls made in this call
    stream,                \* AudioCapture.stream: "None" or "active"
    audio_queue,           \* AudioCapture.audio_queue, oldest block first
    captured,              \* number of audio blocks the device has delivered
    listening,             \* position of SpeechToText.start_listening
    rec,                   \* result of the last VoskRecognizer.process_audio call
    callback_calls,        \* callback invocations made by the last loop iteration
    final,                 \* the last final result stop_listening got from the recognizer
    in_flight,             \* turns waiting for the understanding service
    audio_playing,         \* the global _audio_playing of text_to_speech.py
    playback,              \* the play_audio threads that have not ended
    ready_to_listen        \* what the last ready_to_listen event followed

nlu_vars == <<state, claim_data, frustration_score, conversation_history,
              confirm_attempts, op, user_text, svc, svc_calls, ret, completion>>

driver_vars == <<call_active, waiting_for_callback_choice, n8n_client, N8N_WEBHOOK_URL,
                 webhook_posts, stream, audio_queue, captured, listening, rec,
                 callback_calls, final, in_flight>>

tts_vars == <<audio_playing, playback, ready_to_listen>>

vars == <<nlu_vars, driver_vars, tts_vars>>

\* no audio block has been recognized
NoRecognition == [text |-> <<>>, partial |-> FALSE, block |-> 0]

\* stop_listening has not been called
NoFinal == [text |-> <<>>, sink |-> "none"]

\* no call handler has been started
DriverIdle ==
    /\ call_active = FALSE
    /\ waiting_for_callback_choice = FALSE
    /\ n8n_client = FALSE
    /\ N8N_WEBHOOK_URL = FALSE
    /\ webhook_posts = 0
    /\ stream = "None"
    /\ audio_queue = <<>>
    /\ captured = 0
    /\ listening = "not_started"
    /\ rec = NoRecognition
    /\ callback_calls = 0
    /\ final = NoFinal
    /\ in_flight = <<>>
    /\ audio_playing = FALSE
    /\ playback = <<>>
    /\ ready_to_listen = "none"

----------------------------------------------------------------------------
(* Bounds *)

MaxHistory == 8

----------------------------------------------------------------------------
(* ConversationState *)

ConversationState ==
    {"GREETING", "GATHERING_POLICY_INFO", "GATHERING_INCIDENT_DETAILS",
     "GATHERING_DAMAGE_INFO", "CONFIRMING", "TO_REVIEW", "COMPLETE",
     "EMERGENCY_TRANSFER"}

\* position of a state in the declared progression
StateRank(s) ==
    CASE s = "GREETING" -> 0
      [] s = "GATHERING_POLICY_INFO" -> 1
      [] s = "GATHERING_INCIDENT_DETAILS" -> 2
      [] s = "GATHERING_DAMAGE_INFO" -> 3
      [] s = "CONFIRMING" -> 4
      [] s = "TO_REVIEW" -> 5
      [] s = "COMPLETE" -> 6
      [] s = "EMERGENCY_TRANSFER" -> 7

\* ConversationState.<member>.value
StateValue(s) ==
    CASE s = "GREETING" -> "greeting"
      [] s = "GATHERING_POLICY_INFO" -> "gathering_policy_info"
      [] s = "GATHERING_INCIDENT_DETAILS" -> "gathering_incident_details"
      [] s = "GATHERING_DAMAGE_INFO" -> "gathering_damage_info"
      [] s = "CONFIRMING" -> "confirming"
      [] s = "TO_REVIEW" -> "to_review"
      [] s = "COMPLETE" -> "complete"
      [] s = "EMERGENCY_TRANSFER" -> "emergency_transfer"

----------------------------------------------------------------------------
(* Values and the claim record *)

None == <<"None">>
NullText == <<"null">>

ClaimFields ==
    {"policyId", "customerName", "incidentType", "description", "location",
     "estimatedDamage", "incidentDate"}

required_fields ==
    {"policyId", "customerName", "incidentType", "description", "location"}

EmptyClaim == [f \in ClaimFields |-> None]

\* Python truthiness of a value that is None or a str
Truthy(v) == v # None /\ v # <<>>

FrustrationThreshold == 5

\* a description that is stored without the score tag
TagDescription_NoTag(score, value) == value

\* f"[Frustration Score: {self.frustration_score}/10] {value}"
TagDescription(score, value) ==
    <<"[Frustration Score:", ToString(score), "/10]">> \o value

----------------------------------------------------------------------------
(* The review-state keyword classifier (process_input, TO_REVIEW branch).  *)
(* An utterance is the sequence of its words; " " stands for surrounding   *)
(* white space.                                                            *)

\* str.lower() on one word
LowerWord(w) ==
    CASE w = "Yes" -> "yes"
      [] w = "YES" -> "yes"
      [] w = "No" -> "no"
      [] w = "All" -> "all"
      [] w = "Thank" -> "thank"
      [] OTHER -> w

Lower(s) == [i \in 1..Len(s) |-> LowerWord(s[i])]

RECURSIVE StripLeft(_)
StripLeft(s) == IF s # <<>> /\ Head(s) = " " THEN StripLeft(Tail(s)) ELSE s

RECURSIVE StripRight(_)
StripRight(s) ==
    IF s # <<>> /\ s[Len(s)] = " " THEN StripRight(SubSeq(s, 1, Len(s) - 1)) ELSE s

\* str.strip()
Strip(s) == StripRight(StripLeft(s))

\* re.search(r'\b(p1|p2|...)\b', s) for word phrases p1, p2, ...
SearchAny(phrases, s) ==
    \E p \in phrases :
        \E i \in 1..(Len(s) - Len(p) + 1) : SubSeq(s, i, i + Len(p) - 1) = p

AffirmativePhrases ==
    {<<"yes">>, <<"yep">>, <<"yeah">>, <<"y">>, <<"correct">>, <<"confirm">>,
     <<"that's", "correct">>, <<"all", "set">>, <<"looks", "good">>, <<"right">>,
     <<"thanks">>, <<"thank", "you">>, <<"bye">>, <<"goodbye">>}

NegativePhrases ==
    {<<"no">>, <<"not">>, <<"change">>, <<"incorrect">>, <<"wrong">>, <<"edit">>,
     <<"update">>, <<"needs">>, <<"nope">>}

is_affirmative(s) == SearchAny(AffirmativePhrases, s)

is_negative(s) == SearchAny(NegativePhrases, s)

\* the words the system prompt lists as emergency and panic indicators
EmergencyWords ==
    {"injuries", "bleeding", "blood", "pain", "emergency", "ambulance", "hospital",
     "hurt", "unconscious", "help", "scared", "dying", "breathe"}

SignalsEmergency(s) == \E i \in 1..Len(s) : LowerWord(s[i]) \in EmergencyWords

----------------------------------------------------------------------------
(* Fixed response texts *)

CLAIM_CREATED == <<"Thank you! Your claim has been created successfully.">>
WHICH_DETAIL == <<"I understand you'd like to make changes.">>
PLEASE_CONFIRM == <<"Could you please confirm: is the information I summarized correct?">>
URGENT_HANDOFF == <<"I understand this is urgent.">>
FRUSTRATION_HANDOFF == <<"I can understand that there is a bit of frustration.">>
APOLOGY == <<"I apologize, I'm having technical difficulties.">>
TECHNICAL_ERROR == <<"technical_error">>

Result(response, should_transfer, transfer_reason, fs, cd, st, is_complete) ==
    [response |-> response, should_transfer |-> should_transfer,
     transfer_reason |-> transfer_reason, frustration_score |-> fs,
     claim_data |-> cd, state |-> StateValue(st), is_complete |-> is_complete]

NoResult ==
    [response |-> <<>>, should_transfer |-> FALSE, transfer_reason |-> <<>>,
     frustration_score |-> 0, claim_data |-> EmptyClaim, state |-> "",
     is_complete |-> FALSE]

----------------------------------------------------------------------------
(* The understanding service.  One outcome of the chat-completion call:    *)
(*   kind "timeout", "transport_error": the call raises;                   *)
(*   kind "malformed_json": json.loads raises;                             *)
(*   kind "score_not_a_number": float(frustration_score) raises;           *)
(*   kind "claim_data_null": claim_data is null, .items() raises;          *)
(*   kind "ok": a JSON object with the fields below.  conversation_state   *)
(*   MissingKey stands for an object without that key.                     *)

MissingKey == "<missing>"

Outcome(kind, em, reason, fs, cd, cs) ==
    [kind |-> kind, emergency_detected |-> em, emergency_reason |-> reason,
     frustration_score |-> fs, claim_data |-> cd, conversation_state |-> cs]

NotCalled == Outcome("not_called", FALSE, <<>>, 0, <<>>, MissingKey)

\* the call or the parse of its payload raises (lines 145-155)
CallRaises(r) == r.kind \in {"timeout", "transport_error", "malformed_json"}

\* result.get("conversation_state", "GATHERING_POLICY_INFO")
SuggestedState(r) ==
    IF r.conversation_state = MissingKey THEN "GATHERING_POLICY_INFO"
    ELSE r.conversation_state

\* the turn ends in the except branch
TurnRaises(r) ==
    \/ CallRaises(r)
    \/ r.kind \in {"score_not_a_number", "claim_data_null"}
    \/ SuggestedState(r) \notin ConversationState

----------------------------------------------------------------------------
(* ConversationalNLU *)

\* the merge loop without the test of the value
MergeClaim_NoValueTest(cd, extracted_claim, score) ==
    [key \in ClaimFields |->
        IF key \in DOMAIN extracted_claim
        THEN IF key = "description"
             THEN TagDescription(score, extracted_claim[key])
             ELSE extracted_claim[key]
        ELSE cd[key]]

\* lines 163-170: the merge loop over extracted_claim.items()
MergeClaim(cd, extracted_claim, score) ==
    [key \in ClaimFields |->
        IF /\ key \in DOMAIN extracted_claim
           /\ Truthy(extracted_claim[key])
           /\ extracted_claim[key] # NullText
        THEN IF key = "description"
             THEN TagDescription(score, extracted_claim[key])
             ELSE extracted_claim[key]
        ELSE cd[key]]

\* a completion check that asks for all seven fields
check_claim_completion_AllFields(cd) ==
    \A field \in ClaimFields : Truthy(cd[field]) /\ cd[field] # NullText

\* _check_claim_completion
check_claim_completion(cd) ==
    \A field \in required_fields : Truthy(cd[field]) /\ cd[field] # NullText

\* lines 210-224: the confirmation summary
ConfirmText(cd) ==
    <<"Let me confirm: I have">>
    \o (IF Truthy(cd["policyId"]) THEN <<"policy number">> \o cd["policyId"] ELSE <<>>)
    \o (IF Truthy(cd["customerName"]) THEN <<"under the name">> \o cd["customerName"] ELSE <<>>)
    \o (IF Truthy(cd["incidentType"]) THEN <<"for a">> \o cd["incidentType"] ELSE <<>>)
    \o (IF Truthy(cd["location"]) THEN <<"at">> \o cd["location"] ELSE <<>>)
    \o (IF Truthy(cd["incidentDate"]) THEN <<"on">> \o cd["incidentDate"] ELSE <<>>)
    \o <<"Is this correct?">>

\* the response text of a service result
AssistantResponse == <<"<assistant_response>">>

\* lines 43-58: a constructed ConversationalNLU
InitNLU ==
    /\ state = "GREETING"
    /\ claim_data = EmptyClaim
    /\ frustration_score = 0
    /\ conversation_history = <<>>
    /\ confirm_attempts = <<>>
    /\ op = "init"
    /\ user_text = <<>>
    /\ svc = NotCalled
    /\ svc_calls = 0
    /\ ret = NoResult
    /\ completion = FALSE

Init == InitNLU /\ DriverIdle

\* a classifier that tests the negative keywords first
ReviewNextState_NegativeFirst(lc) ==
    IF is_negative(lc) THEN "GATHERING_INCIDENT_DETAILS"
    ELSE IF is_affirmative(lc) THEN "COMPLETE"
    ELSE "TO_REVIEW"

\* lines 93-131: the state the local classifier chooses for the lower-cased text
ReviewNextState(lc) ==
    IF is_affirmative(lc) THEN "COMPLETE"
    ELSE IF is_negative(lc) THEN "GATHERING_INCIDENT_DETAILS"
    ELSE "TO_REVIEW"

\* lines 98-131: the dictionary a review turn returns
ReviewResult(next, fs, cd) ==
    Result(CASE next = "COMPLETE" -> CLAIM_CREATED
             [] next = "GATHERING_INCIDENT_DETAILS" -> WHICH_DETAIL
             [] OTHER -> PLEASE_CONFIRM,
           FALSE, <<>>, fs, cd, next, next = "COMPLETE")

\* a session that never handles a turn locally
HandledLocally_Never(st) == FALSE

\* line 84: a turn in the review state is handled without the understanding service
HandledLocally(st) == st = "TO_REVIEW"

\* a rejected confirmation that clears the location
ReviewClaim_ClearsLocation(cd, next) ==
    IF next = "GATHERING_INCIDENT_DETAILS" THEN [cd EXCEPT !["location"] = None] ELSE cd

\* lines 103, 117, 128: the review branch returns the claim record as it is
ReviewClaim(cd, next) == cd

\* process_input, lines 78-131: the turn is handled locally
ReviewTurn(text) ==
    LET lc == Strip(Lower(text))
        next == ReviewNextState(lc)
        history == Append(conversation_history, "CALLER")
    IN  /\ HandledLocally(state)
        /\ Len(conversation_history) + 3 <= MaxHistory
        /\ op' = "process_input"
        /\ user_text' = text
        /\ svc' = NotCalled
        /\ svc_calls' = 0
        /\ state' = next
        /\ confirm_attempts' = IF next = "COMPLETE" THEN <<0>> ELSE confirm_attempts
        /\ conversation_history' =
               IF next = "TO_REVIEW" THEN history ELSE Append(history, "ASSISTANT")
        /\ claim_data' = ReviewClaim(claim_data, next)
        /\ ret' = ReviewResult(next, frustration_score, claim_data')
        /\ UNCHANGED <<frustration_score, completion>>

\* line 161: self.frustration_score after the turn
ScoreAfter(fs0, r) ==
    IF CallRaises(r) \/ r.kind = "score_not_a_number" THEN fs0 ELSE r.frustration_score

\* a merge that is cut short when the suggested state name is unknown
ClaimAfter_CutShort(cd0, r, fs) ==
    IF CallRaises(r) \/ r.kind \in {"score_not_a_number", "claim_data_null"} THEN cd0
    ELSE IF SuggestedState(r) \notin ConversationState /\ "location" \in DOMAIN r.claim_data
    THEN [MergeClaim(cd0, r.claim_data, fs) EXCEPT !["location"] = cd0["location"]]
    ELSE MergeClaim(cd0, r.claim_data, fs)

\* lines 164-170: self.claim_data after the turn
ClaimAfter(cd0, r, fs) ==
    IF CallRaises(r) \/ r.kind \in {"score_not_a_number", "claim_data_null"} THEN cd0
    ELSE MergeClaim(cd0, r.claim_data, fs)

\* a threshold test that is not strict
FrustrationTooHigh_NotStrict(fs) == fs >= FrustrationThreshold

\* line 192
FrustrationTooHigh(fs) == fs > FrustrationThreshold

\* line 206: the completion check moves the session to the review state
EntersReview(r, cd) ==
    check_claim_completion(cd) /\ SuggestedState(r) \notin {"TO_REVIEW", "COMPLETE"}

\* a turn that assigns the suggested state before it reads the other fields
StateAfter_AssignedEarly(st0, r, cd, fs) ==
    IF CallRaises(r) \/ SuggestedState(r) \notin ConversationState THEN st0
    ELSE IF TurnRaises(r) THEN SuggestedState(r)
    ELSE IF r.emergency_detected \/ FrustrationTooHigh(fs) THEN "EMERGENCY_TRANSFER"
    ELSE IF EntersReview(r, cd) THEN "TO_REVIEW"
    ELSE SuggestedState(r)

\* lines 173, 180, 193, 208: self.state after the turn
StateAfter(st0, r, cd, fs) ==
    IF TurnRaises(r) THEN st0
    ELSE IF r.emergency_detected \/ FrustrationTooHigh(fs) THEN "EMERGENCY_TRANSFER"
    ELSE IF EntersReview(r, cd) THEN "TO_REVIEW"
    ELSE SuggestedState(r)

\* an error result that reports the completion of the claim record
ErrorResult_Complete(fs, cd, st) ==
    Result(APOLOGY, TRUE, TECHNICAL_ERROR, fs, cd, st, check_claim_completion(cd))

\* lines 253-261
ErrorResult(fs, cd, st) == Result(APOLOGY, TRUE, TECHNICAL_ERROR, fs, cd, st, FALSE)

\* a turn that tests the frustration score before the emergency flag
ServiceResult_FrustrationFirst(st0, r, cd, fs) ==
    IF TurnRaises(r) THEN ErrorResult(fs, cd, st0)
    ELSE IF FrustrationTooHigh(fs)
    THEN Result(FRUSTRATION_HANDOFF, TRUE, <<"high_frustration_", ToString(fs)>>, fs, cd,
                "EMERGENCY_TRANSFER", FALSE)
    ELSE IF r.emergency_detected
    THEN Result(URGENT_HANDOFF, TRUE, r.emergency_reason, fs, cd,
                "EMERGENCY_TRANSFER", FALSE)
    ELSE IF EntersReview(r, cd)
    THEN Result(ConfirmText(cd), FALSE, <<>>, fs, cd, "TO_REVIEW", FALSE)
    ELSE Result(AssistantResponse, FALSE, <<>>, fs, cd, SuggestedState(r),
                check_claim_completion(cd) \/ SuggestedState(r) = "COMPLETE")

\* lines 181-249 and 253-261: the dictionary a service turn returns
ServiceResult(st0, r, cd, fs) ==
    IF TurnRaises(r) THEN ErrorResult(fs, cd, st0)
    ELSE IF r.emergency_detected
    THEN Result(URGENT_HANDOFF, TRUE, r.emergency_reason, fs, cd,
                "EMERGENCY_TRANSFER", FALSE)
    ELSE IF FrustrationTooHigh(fs)
    THEN Result(FRUSTRATION_HANDOFF, TRUE, <<"high_frustration_", ToString(fs)>>, fs, cd,
                "EMERGENCY_TRANSFER", FALSE)
    ELSE IF EntersReview(r, cd)
    THEN Result(ConfirmText(cd), FALSE, <<>>, fs, cd, "TO_REVIEW", FALSE)
    ELSE Result(AssistantResponse, FALSE, <<>>, fs, cd, SuggestedState(r),
                check_claim_completion(cd) \/ SuggestedState(r) = "COMPLETE")

\* lines 78, 176, 227: self.conversation_history after the turn
HistoryAfter(h, r, cd, fs) ==
    IF TurnRaises(r) THEN Append(h, "CALLER")
    ELSE IF ~r.emergency_detected /\ ~FrustrationTooHigh(fs) /\ EntersReview(r, cd)
    THEN h \o <<"CALLER", "ASSISTANT", "ASSISTANT">>
    ELSE h \o <<"CALLER", "ASSISTANT">>

\* process_input, lines 78 and 134-261: the turn goes through the understanding service
ServiceTurn(text, r) ==
    LET fs == ScoreAfter(frustration_score, r)
        cd == ClaimAfter(claim_data, r, fs)
    IN  /\ ~HandledLocally(state)
        /\ Len(conversation_history) + 3 <= MaxHistory
        /\ op' = "process_input"
        /\ user_text' = text
        /\ svc' = r
        /\ svc_calls' = 1
        /\ frustration_score' = fs
        /\ claim_data' = cd
        /\ state' = StateAfter(state, r, cd, fs)
        /\ conversation_history' = HistoryAfter(conversation_history, r, cd, fs)
        /\ ret' = ServiceResult(state, r, cd, fs)
        /\ UNCHANGED <<confirm_attempts, completion>>

\* a call of _check_claim_completion on the current claim record
CheckCompletion ==
    /\ completion' = check_claim_completion(claim_data)
    /\ op' = "check"
    /\ UNCHANGED <<state, claim_data, frustration_score, conversation_history,
                   confirm_attempts, user_text, svc, svc_calls, ret>>
    /\ UNCHANGED <<driver_vars, tts_vars>>

\* a reset that leaves the claim record as it is
Reset_KeepsClaim ==
    /\ state' = "GREETING"
    /\ frustration_score' = 0
    /\ conversation_history' = <<>>
    /\ op' = "reset"
    /\ user_text' = <<>>
    /\ svc' = NotCalled
    /\ svc_calls' = 0
    /\ ret' = NoResult
    /\ UNCHANGED <<claim_data, confirm_attempts, completion>>
    /\ UNCHANGED <<driver_vars, tts_vars>>

\* lines 360-373: reset
Reset ==
    /\ state' = "GREETING"
    /\ claim_data' = EmptyClaim
    /\ frustration_score' = 0
    /\ conversation_history' = <<>>
    /\ op' = "reset"
    /\ user_text' = <<>>
    /\ svc' = NotCalled
    /\ svc_calls' = 0
    /\ ret' = NoResult
    /\ UNCHANGED <<confirm_attempts, completion>>
    /\ UNCHANGED <<driver_vars, tts_vars>>

----------------------------------------------------------------------------
(* Inputs *)

Utterances ==
    {<<"Yes">>,
     <<"no", "my", "location", "is", "wrong">>,
     <<"no", "thanks">>,
     <<"hmm">>,
     <<"there's", "blood", "I", "can't", "breathe">>,
     <<" ", "All", "set", " ">>}

Scores == {-1, 0, 5, 6, 12}

PolicyAndName == ("policyId" :> <<"PL-100">>) @@ ("customerName" :> <<"Jane Doe">>)

Incident ==
    ("incidentType" :> <<"collision">>) @@ ("description" :> <<"car was hit">>)
    @@ ("location" :> <<"5th Ave">>)

Optional == ("estimatedDamage" :> <<"1500">>) @@ ("incidentDate" :> <<"2025-01-01">>)

NewLocation == ("location" :> <<"Main St">>)

AllOf(v) == [f \in ClaimFields |-> v]

UnknownKey == ("claimNumber" :> <<"77">>)

Payloads ==
    {<<>>, PolicyAndName, Incident, PolicyAndName @@ Incident, Optional, NewLocation,
     AllOf(None), AllOf(<<>>), AllOf(NullText), UnknownKey}

StateNames == ConversationState \cup {MissingKey, "REVIEW"}

OrdinaryUtterance == <<"my", "car", "was", "hit">>

EmergencyUtterance == <<"there's", "blood", "I", "can't", "breathe">>

FullClaim == PolicyAndName @@ Incident

Failures ==
    {Outcome(k, FALSE, <<>>, 0, <<>>, MissingKey) :
        k \in {"timeout", "transport_error", "malformed_json", "score_not_a_number"}}
    \cup {Outcome("claim_data_null", FALSE, <<>>, 12, <<>>, MissingKey)}

Ok(em, fs, cd, cs) == Outcome("ok", em, IF em THEN <<"injury">> ELSE <<>>, fs, cd, cs)

\* results that differ in the suggested state, in the score and the emergency
\* flag, in the extracted fields, and results that complete the claim
OkOutcomes ==
    {Ok(FALSE, 0, <<>>, cs) : cs \in StateNames}
    \cup {Ok(em, fs, <<>>, "GATHERING_INCIDENT_DETAILS") : em \in BOOLEAN, fs \in Scores}
    \cup {Ok(em, fs, FullClaim, "GATHERING_INCIDENT_DETAILS") :
            em \in BOOLEAN, fs \in {0, 6}}
    \cup {Ok(FALSE, 0, cd, "GATHERING_DAMAGE_INFO") : cd \in Payloads}
    \cup {Ok(FALSE, 0, FullClaim, cs) : cs \in StateNames}
    \cup {Ok(FALSE, 5, Incident, "CONFIRMING"), Ok(FALSE, 6, Incident, "REVIEW")}

Outcomes == Failures \cup OkOutcomes

\* what the service may answer to the emergency utterance
EmergencyOutcomes ==
    {Ok(TRUE, 0, <<>>, "GATHERING_INCIDENT_DETAILS"),
     Ok(TRUE, 6, FullClaim, "GATHERING_INCIDENT_DETAILS"),
     Ok(FALSE, 0, <<>>, "GATHERING_INCIDENT_DETAILS"),
     Outcome("timeout", FALSE, <<>>, 0, <<>>, MissingKey)}

\* the turns that go through the service: an utterance and the service's outcome
ServiceInputs ==
    {<<OrdinaryUtterance, r>> : r \in Outcomes}
    \cup {<<EmergencyUtterance, r>> : r \in EmergencyOutcomes}

ProcessInputReview ==
    \E text \in Utterances : ReviewTurn(text) /\ UNCHANGED <<driver_vars, tts_vars>>

ProcessInputService ==
    \E in \in ServiceInputs : ServiceTurn(in[1], in[2]) /\ UNCHANGED <<driver_vars, tts_vars>>

Next == ProcessInputReview \/ ProcessInputService \/ Reset

Spec == Init /\ [][Next]_vars

----------------------------------------------------------------------------
(* The completion check on every shape of the claim record *)

StoredValues(f) ==
    IF f = "description" THEN {None, TagDescription(0, <<"car was hit">>)}
    ELSE {None, <<"x">>}

ClaimRecords == {cd \in [ClaimFields -> {None, <<"x">>, TagDescription(0, <<"car was hit">>)}] :
                    \A f \in ClaimFields : cd[f] \in StoredValues(f)}

InitCompletion ==
    /\ state = "GREETING"
    /\ claim_data \in ClaimRecords
    /\ frustration_score = 0
    /\ conversation_history = <<>>
    /\ confirm_attempts = <<>>
    /\ op = "init"
    /\ user_text = <<>>
    /\ svc = NotCalled
    /\ svc_calls = 0
    /\ ret = NoResult
    /\ completion = FALSE
    /\ DriverIdle

NextCompletion == CheckCompletion

SpecCompletion == InitCompletion /\ [][NextCompletion]_vars

----------------------------------------------------------------------------
(* A turn whose call of the understanding service is a step of its own *)

\* a step that makes no process_input call
NoTurn(name) ==
    /\ op' = name
    /\ user_text' = <<>>
    /\ svc' = NotCalled
    /\ svc_calls' = 0
    /\ ret' = NoResult
    /\ UNCHANGED <<state, claim_data, frustration_score, conversation_history,
                   confirm_attempts, completion>>

\* natural_language_understanding.py lines 78-153: the turn appends the caller's
\* line and waits for the understanding service
CallService(text) ==
    /\ conversation_history' = Append(conversation_history, "CALLER")
    /\ in_flight' = Append(in_flight, text)
    /\ op' = "call_service"
    /\ user_text' = text
    /\ svc' = NotCalled
    /\ svc_calls' = 0
    /\ ret' = NoResult
    /\ UNCHANGED <<state, claim_data, frustration_score, confirm_attempts, completion>>

\* the sequence s without its i-th element
Without(s, i) == SubSeq(s, 1, i - 1) \o SubSeq(s, i + 1, Len(s))

\* natural_language_understanding.py lines 155-261: the service answers the
\* i-th waiting turn and process_input runs to its end
FinishTurn(i, r) ==
    LET fs == ScoreAfter(frustration_score, r)
        cd == ClaimAfter(claim_data, r, fs)
    IN  /\ i \in 1..Len(in_flight)
        /\ in_flight' = Without(in_flight, i)
        /\ op' = "process_input"
        /\ user_text' = in_flight[i]
        /\ svc' = r
        /\ svc_calls' = 1
        /\ frustration_score' = fs
        /\ claim_data' = cd
        /\ state' = StateAfter(state, r, cd, fs)
        /\ conversation_history' =
               conversation_history \o Tail(HistoryAfter(<<>>, r, cd, fs))
        /\ ret' = ServiceResult(state, r, cd, fs)
        /\ UNCHANGED <<confirm_attempts, completion>>

----------------------------------------------------------------------------
(* text_to_speech.py: every call of text_to_speech that succeeds starts a   *)
(* play_audio thread.  An element of playback is a thread that has not      *)
(* ended, or one whose end a _play_and_listen thread has not yet seen.      *)

MaxPlayback == 3

\* line 74-75: a play_audio thread that has not run yet
Task(waiter) == [st |-> "spawned", waiter |-> waiter]

\* lines 18-78: the threads after n calls of text_to_speech that succeed
Spoken(p, n) == p \o [k \in 1..n |-> Task(FALSE)]

\* lines 63-65: the thread sets the flag and starts to play
PlaybackStarts(k) ==
    /\ k \in 1..Len(playback)
    /\ playback[k].st = "spawned"
    /\ playback' = [playback EXCEPT ![k].st = "playing"]
    /\ audio_playing' = TRUE
    /\ UNCHANGED ready_to_listen

\* a thread that ends without the finally clause
PlaybackEnds_KeepsFlag(k) ==
    /\ k \in 1..Len(playback)
    /\ playback[k].st = "playing"
    /\ playback' = IF playback[k].waiter THEN [playback EXCEPT ![k].st = "done"]
                   ELSE Without(playback, k)
    /\ UNCHANGED <<audio_playing, ready_to_listen>>

\* lines 66-71: playing ends, or sd.play raises, and the thread clears the flag
PlaybackEnds(k) ==
    /\ k \in 1..Len(playback)
    /\ playback[k].st = "playing"
    /\ playback' = IF playback[k].waiter THEN [playback EXCEPT ![k].st = "done"]
                   ELSE Without(playback, k)
    /\ audio_playing' = FALSE
    /\ UNCHANGED ready_to_listen

----------------------------------------------------------------------------
(* run_call_handler of pipeline.py on top of SpeechToText *)

MaxBlocks == 4

\* a queue that holds one block and drops what arrives when it is full
Enqueue_Bounded(q, b) == IF q = <<>> THEN <<b>> ELSE q

\* speech_to_text.py line 47: put on the unbounded queue
Enqueue(q, b) == Append(q, b)

\* a stop that leaves the stream as it is
stop_stream_Skipped(s) == s

\* speech_to_text.py lines 78-87: stop_stream
stop_stream(s) == "None"

\* speech_to_text.py lines 189-219: the text the recognizer still holds after
\* the result r, the words of an utterance that has not ended
Remaining(r) == IF r.partial THEN r.text ELSE <<>>

\* speech_to_text.py lines 300-302: stop_listening reads the final result and
\* prints its text
Flushed(t) == [text |-> t, sink |-> IF t # <<>> THEN "print" ELSE "none"]

\* speech_to_text.py lines 293-302: the final result after a step that leaves
\* the stream as s, r being the last result of process_audio
stop_listening(s, r) == IF s = "active" THEN final ELSE Flushed(Remaining(r))

\* a loop that hands every result with text to the callback
Delivers_AnyText(result) == result.text # <<>>

\* speech_to_text.py lines 279-280: the loop hands the result to the callback
Delivers(result) == result.text # <<>> /\ ~result.partial

\* pipeline.py lines 92-98: the callback goes on to process_input
Accepts(result) == ~result.partial /\ Strip(result.text) # <<>>

\* pipeline.py lines 119-169: what the callback does with the turn's result;
\* a text_to_speech call that raises is caught and starts no thread
EndOfCall(result, tts_ok, goodbye_ok) ==
    LET spoken == Spoken(playback, IF tts_ok THEN 1 ELSE 0)
    IN  IF result.should_transfer
        THEN /\ call_active' = FALSE
             /\ stream' = stop_stream(stream)
             /\ webhook_posts' = webhook_posts
             /\ playback' = spoken
        ELSE IF result.is_complete
        THEN /\ webhook_posts' = webhook_posts + (IF n8n_client THEN 1 ELSE 0)
             /\ call_active' = FALSE
             /\ stream' = stop_stream(stream)
             /\ playback' = Spoken(spoken, IF goodbye_ok THEN 1 ELSE 0)
        ELSE /\ playback' = spoken
             /\ UNCHANGED <<call_active, stream, webhook_posts>>

\* pipeline.py lines 82-169: handle_speech_callback up to the point where it
\* returns or waits for the understanding service
handle_speech_callback(result, tts_ok, goodbye_ok) ==
    IF ~Accepts(result)
    THEN /\ NoTurn("listen")
         /\ UNCHANGED <<call_active, stream, webhook_posts, in_flight, playback>>
    ELSE IF HandledLocally(state)
    THEN /\ ReviewTurn(Strip(result.text))
         /\ EndOfCall(ret', tts_ok, goodbye_ok)
         /\ UNCHANGED in_flight
    ELSE /\ Len(conversation_history) + 3 <= MaxHistory
         /\ CallService(Strip(result.text))
         /\ UNCHANGED <<call_active, stream, webhook_posts, playback>>

\* speech_to_text.py lines 261-265 and 66-76: start_listening up to the loop;
\* without an input device RawInputStream raises before the try statement, the
\* stream attribute stays None and the exception leaves start_listening
StartListening(device_ok) ==
    /\ listening = "not_started"
    /\ audio_queue' = <<>>
    /\ stream' = IF device_ok THEN "active" ELSE stream
    /\ listening' = IF device_ok THEN "loop" ELSE "returned"
    /\ NoTurn("start_listening")
    /\ UNCHANGED <<call_active, waiting_for_callback_choice, n8n_client, N8N_WEBHOOK_URL,
                   webhook_posts, captured, rec, callback_calls, final, in_flight>>
    /\ UNCHANGED tts_vars

\* speech_to_text.py lines 32-47: the device delivers a block
AudioCallback ==
    /\ stream = "active"
    /\ captured < MaxBlocks
    /\ captured' = captured + 1
    /\ audio_queue' = Enqueue(audio_queue, captured')
    /\ op' = "capture"
    /\ UNCHANGED <<state, claim_data, frustration_score, conversation_history,
                   confirm_attempts, completion, user_text, svc, svc_calls, ret>>
    /\ UNCHANGED <<call_active, waiting_for_callback_choice, n8n_client, N8N_WEBHOOK_URL,
                   webhook_posts, stream, listening, rec, callback_calls, final, in_flight>>
    /\ UNCHANGED tts_vars

\* speech_to_text.py lines 271-286 and 290-291: one iteration of the loop up to
\* the point where the callback returns or waits for the understanding
\* service, and the return from start_listening when the callback has stopped
\* the stream
ListenIteration(text, partial, tts_ok, goodbye_ok) ==
    /\ listening = "loop"
    /\ stream = "active"
    /\ audio_queue # <<>>
    /\ Len(playback) + 2 <= MaxPlayback
    /\ audio_queue' = Tail(audio_queue)
    /\ rec' = [text |-> text, partial |-> partial, block |-> Head(audio_queue)]
    /\ IF Delivers(rec')
       THEN /\ callback_calls' = 1
            /\ handle_speech_callback(rec', tts_ok, goodbye_ok)
       ELSE /\ callback_calls' = 0
            /\ NoTurn("listen")
            /\ UNCHANGED <<call_active, stream, webhook_posts, in_flight, playback>>
    /\ listening' = IF in_flight' # <<>> THEN "in_call"
                    ELSE IF stream' = "active" THEN "loop" ELSE "returned"
    /\ final' = stop_listening(stream', rec')
    /\ UNCHANGED <<waiting_for_callback_choice, n8n_client, N8N_WEBHOOK_URL, captured,
                   audio_playing, ready_to_listen>>

\* natural_language_understanding.py lines 155-261 and pipeline.py lines
\* 104-169: the service answers and the callback runs to its end
CallReturns(r, tts_ok, goodbye_ok) ==
    /\ listening = "in_call"
    /\ Len(playback) + 2 <= MaxPlayback
    /\ FinishTurn(1, r)
    /\ EndOfCall(ret', tts_ok, goodbye_ok)
    /\ listening' = IF stream' = "active" THEN "loop" ELSE "returned"
    /\ final' = stop_listening(stream', rec)
    /\ UNCHANGED <<waiting_for_callback_choice, n8n_client, N8N_WEBHOOK_URL, audio_queue,
                   captured, rec, callback_calls, audio_playing, ready_to_listen>>

\* speech_to_text.py lines 273-276 and 290-291: get_audio_data or process_audio
\* raises, the finally clause stops the stream and the exception leaves
\* start_listening
LoopRaises ==
    /\ listening = "loop"
    /\ stream = "active"
    /\ audio_queue # <<>>
    /\ audio_queue' = Tail(audio_queue)
    /\ rec' = [NoRecognition EXCEPT !.block = Head(audio_queue)]
    /\ callback_calls' = 0
    /\ stream' = stop_stream(stream)
    /\ final' = stop_listening(stream', rec)
    /\ listening' = "returned"
    /\ NoTurn("loop_error")
    /\ UNCHANGED <<call_active, waiting_for_callback_choice, n8n_client, N8N_WEBHOOK_URL,
                   webhook_posts, captured, in_flight>>
    /\ UNCHANGED tts_vars

\* speech_to_text.py lines 288-291: Ctrl+C ends the loop, also while the
\* callback waits for the understanding service
KeyboardInterrupt ==
    /\ listening \in {"loop", "in_call"}
    /\ stream' = stop_stream(stream)
    /\ final' = stop_listening(stream', rec)
    /\ listening' = "returned"
    /\ in_flight' = <<>>
    /\ NoTurn("interrupt")
    /\ UNCHANGED <<call_active, waiting_for_callback_choice, n8n_client, N8N_WEBHOOK_URL,
                   webhook_posts, audio_queue, captured, rec, callback_calls>>
    /\ UNCHANGED tts_vars

\* text_to_speech.py lines 61-71: a step of a play_audio thread during the call
PlayAudio ==
    /\ \E k \in 1..MaxPlayback : PlaybackStarts(k) \/ PlaybackEnds(k)
    /\ op' = "play_audio"
    /\ UNCHANGED <<state, claim_data, frustration_score, conversation_history,
                   confirm_attempts, completion, user_text, svc, svc_calls, ret>>
    /\ UNCHANGED driver_vars

\* texts the recognizer returns
RecognizedTexts ==
    {OrdinaryUtterance, <<"Yes">>, <<"no", "my", "location", "is", "wrong">>,
     <<" ">>, <<>>}

\* what the service answers in a call
CallOutcomes ==
    {Ok(FALSE, 0, <<>>, "GATHERING_INCIDENT_DETAILS"),
     Ok(FALSE, 0, FullClaim, "GATHERING_INCIDENT_DETAILS"),
     Ok(TRUE, 0, <<>>, "GATHERING_INCIDENT_DETAILS"),
     Ok(FALSE, 6, <<>>, "GATHERING_INCIDENT_DETAILS"),
     Ok(FALSE, 0, FullClaim, "TO_REVIEW"),
     Ok(FALSE, 0, <<>>, "COMPLETE"),
     Ok(FALSE, 0, <<>>, "EMERGENCY_TRANSFER"),
     Outcome("timeout", FALSE, <<>>, 0, <<>>, MissingKey)}

\* pipeline.py lines 52-80: the handler is set up and the greeting was spoken
InitPipeline ==
    /\ InitNLU
    /\ call_active = TRUE
    /\ waiting_for_callback_choice = FALSE
    /\ N8N_WEBHOOK_URL \in BOOLEAN
    /\ n8n_client = N8N_WEBHOOK_URL
    /\ webhook_posts = 0
    /\ stream = "None"
    /\ audio_queue = <<>>
    /\ captured = 0
    /\ listening = "not_started"
    /\ rec = NoRecognition
    /\ callback_calls = 0
    /\ final = NoFinal
    /\ in_flight = <<>>
    /\ audio_playing = FALSE
    /\ playback \in {<<>>, <<Task(FALSE)>>}
    /\ ready_to_listen = "none"

Start == \E device_ok \in BOOLEAN : StartListening(device_ok)

Listen ==
    \E text \in RecognizedTexts, partial, tts_ok, goodbye_ok \in BOOLEAN :
        ListenIteration(text, partial, tts_ok, goodbye_ok)

Answer ==
    \E r \in CallOutcomes, tts_ok, goodbye_ok \in BOOLEAN :
        CallReturns(r, tts_ok, goodbye_ok)

NextPipeline ==
    Start \/ AudioCallback \/ Listen \/ Answer \/ LoopRaises \/ KeyboardInterrupt \/ PlayAudio

SpecPipeline == InitPipeline /\ [][NextPipeline]_vars

\* speech_to_text.py lines 293-302, 271 and 273: another thread calls
\* stop_listening while the queue is empty and the loop has no block to take.
\* A loop thread that is at the test of line 271 leaves the loop and
\* start_listening; a loop thread that is inside get_audio_data, which has no
\* timeout, stays there
ExternalStop(at_test) ==
    /\ listening = "loop"
    /\ stream = "active"
    /\ audio_queue = <<>>
    /\ stream' = stop_stream(stream)
    /\ final' = stop_listening(stream', rec)
    /\ listening' = IF at_test THEN "returned" ELSE "loop"
    /\ NoTurn("stop_listening")
    /\ UNCHANGED <<call_active, waiting_for_callback_choice, n8n_client, N8N_WEBHOOK_URL,
                   webhook_posts, audio_queue, captured, rec, callback_calls, in_flight>>
    /\ UNCHANGED tts_vars

Stop == \E at_test \in BOOLEAN : ExternalStop(at_test)

NextStop ==
    Start \/ AudioCallback \/ Listen \/ Answer \/ LoopRaises \/ KeyboardInterrupt
    \/ PlayAudio \/ Stop

\* the loop thread is scheduled and the understanding service answers
SpecStop == InitPipeline /\ [][NextStop]_vars /\ WF_vars(Listen) /\ WF_vars(Answer)

----------------------------------------------------------------------------
(* WebCallHandler of webapp.py.  Every user_speech event is handled by a     *)
(* thread of its own on the one global handler, so a turn that waits for the *)
(* understanding service is a step of its own: in_flight holds the texts of  *)
(* the turns that wait, in the order the events arrived.                     *)

MaxInFlight == 2

\* the words of the callback choice that occur inside a token as substrings
SubstringsOf(token) ==
    CASE token = "know" -> {"no", "now"}
      [] token \in {"agent", "now", "speak", "yes", "human", "callback", "later", "no"}
           -> {token}
      [] OTHER -> {}

\* any(word in user_lower for word in words), for words without a blank
ContainsAny(words, lc) ==
    \E i \in 1..Len(lc) : SubstringsOf(lc[i]) \cap words # {}

\* webapp.py line 66
WantsAgent(lc) == ContainsAny({"agent", "now", "speak", "yes", "human"}, lc)

\* webapp.py line 80
WantsCallback(lc) ==
    \/ ContainsAny({"callback", "later", "no"}, lc)
    \/ SearchAny({<<"call", "back">>}, lc)

\* webapp.py lines 32-51: start_call, when no turn of an earlier call is waiting
start_call ==
    /\ in_flight = <<>>
    /\ call_active' = TRUE
    /\ waiting_for_callback_choice' = FALSE
    /\ state' = "GREETING"
    /\ claim_data' = EmptyClaim
    /\ frustration_score' = 0
    /\ conversation_history' = <<>>
    /\ confirm_attempts' = <<>>
    /\ n8n_client' = (N8N_WEBHOOK_URL \/ n8n_client)
    /\ webhook_posts' = 0
    /\ op' = "start_call"
    /\ user_text' = <<>>
    /\ svc' = NotCalled
    /\ svc_calls' = 0
    /\ ret' = NoResult
    /\ UNCHANGED <<completion, N8N_WEBHOOK_URL, stream, audio_queue, captured, listening,
                   rec, callback_calls, final, in_flight>>
    /\ UNCHANGED tts_vars

\* webapp.py lines 167-169 and 192-195
end_call ==
    /\ call_active' = FALSE
    /\ NoTurn("end_call")
    /\ UNCHANGED <<waiting_for_callback_choice, n8n_client, N8N_WEBHOOK_URL, webhook_posts,
                   stream, audio_queue, captured, listening, rec, callback_calls, final,
                   in_flight>>
    /\ UNCHANGED tts_vars

\* webapp.py lines 63-98: the caller chooses between an agent and a call back;
\* when text_to_speech raises, the except clause at 155 leaves the call as it is
CallbackChoice(lc, tts_ok) ==
    /\ IF (WantsAgent(lc) \/ WantsCallback(lc)) /\ tts_ok
       THEN call_active' = FALSE /\ waiting_for_callback_choice' = FALSE
       ELSE UNCHANGED <<call_active, waiting_for_callback_choice>>
    /\ NoTurn("callback_choice")
    /\ UNCHANGED <<webhook_posts, in_flight>>

\* webapp.py lines 113-153: what handle_speech does with the turn's result
AfterTurn(result, tts_ok) ==
    IF result.should_transfer
    THEN IF tts_ok
         THEN /\ webhook_posts' = webhook_posts + (IF n8n_client THEN 1 ELSE 0)
              /\ call_active' = FALSE
              /\ UNCHANGED waiting_for_callback_choice
         ELSE UNCHANGED <<webhook_posts, call_active, waiting_for_callback_choice>>
    ELSE IF result.is_complete
    THEN /\ webhook_posts' = webhook_posts + (IF n8n_client THEN 1 ELSE 0)
         /\ waiting_for_callback_choice' = TRUE
         /\ UNCHANGED call_active
    ELSE UNCHANGED <<webhook_posts, call_active, waiting_for_callback_choice>>

\* webapp.py lines 186-190 and 53-153: a user_speech event up to the point
\* where handle_speech returns or waits for the understanding service
handle_user_speech(data, tts_ok) ==
    LET text == Strip(data)
    IN  /\ text # <<>>
        /\ call_active
        /\ Len(in_flight) < MaxInFlight
        /\ Len(conversation_history) + 2 * Len(in_flight) + 3 <= MaxHistory
        /\ IF waiting_for_callback_choice THEN CallbackChoice(Lower(text), tts_ok)
           ELSE IF HandledLocally(state)
           THEN ReviewTurn(text) /\ AfterTurn(ret', tts_ok) /\ UNCHANGED in_flight
           ELSE /\ CallService(text)
                /\ UNCHANGED <<webhook_posts, call_active, waiting_for_callback_choice>>
        /\ UNCHANGED <<n8n_client, N8N_WEBHOOK_URL, stream, audio_queue, captured,
                       listening, rec, callback_calls, final>>
        /\ UNCHANGED tts_vars

\* webapp.py lines 101-153: the service answers the i-th waiting turn and
\* handle_speech runs to its end
ServiceReturns(i, r, tts_ok) ==
    /\ FinishTurn(i, r)
    /\ AfterTurn(ret', tts_ok)
    /\ UNCHANGED <<n8n_client, N8N_WEBHOOK_URL, stream, audio_queue, captured, listening,
                   rec, callback_calls, final>>
    /\ UNCHANGED tts_vars

\* texts of the user_speech events
SpokenTexts ==
    {OrdinaryUtterance, <<"Yes">>, <<"no", "my", "location", "is", "wrong">>,
     <<"agent">>, <<"call", "me", "later">>, <<"I", "don't", "know">>, <<"hmm">>}

\* webapp.py lines 26-30 and 172: the global handler before the first call
InitWeb ==
    /\ InitNLU
    /\ call_active = FALSE
    /\ waiting_for_callback_choice = FALSE
    /\ n8n_client = FALSE
    /\ N8N_WEBHOOK_URL \in BOOLEAN
    /\ webhook_posts = 0
    /\ stream = "None"
    /\ audio_queue = <<>>
    /\ captured = 0
    /\ listening = "not_started"
    /\ rec = NoRecognition
    /\ callback_calls = 0
    /\ final = NoFinal
    /\ in_flight = <<>>
    /\ audio_playing = FALSE
    /\ playback = <<>>
    /\ ready_to_listen = "none"

UserSpeech ==
    \E data \in SpokenTexts, tts_ok \in BOOLEAN : handle_user_speech(data, tts_ok)

ServiceAnswer ==
    \E i \in 1..MaxInFlight, r \in CallOutcomes, tts_ok \in BOOLEAN :
        ServiceReturns(i, r, tts_ok)

NextWeb == start_call \/ end_call \/ UserSpeech \/ ServiceAnswer

SpecWeb == InitWeb /\ [][NextWeb]_vars

----------------------------------------------------------------------------
(* WebCallHandler._play_and_listen of webapp.py with the play_audio threads *)
(* of text_to_speech.py.  A thread that polls the flag is the waiter of the *)
(* playback it has started.                                                 *)

\* the steps of this section leave the session and the call as they are
PlaybackStep(name) ==
    /\ op' = name
    /\ UNCHANGED <<state, claim_data, frustration_score, conversation_history,
                   confirm_attempts, completion, user_text, svc, svc_calls, ret>>
    /\ UNCHANGED driver_vars

\* webapp.py line 162: a _play_and_listen thread calls text_to_speech; when the
\* call raises the thread ends
play_and_listen(tts_ok) ==
    /\ Len(playback) < MaxPlayback
    /\ playback' = IF tts_ok THEN Append(playback, Task(TRUE)) ELSE playback
    /\ UNCHANGED <<audio_playing, ready_to_listen>>
    /\ PlaybackStep("play_and_listen")

\* pipeline.py line 120: text_to_speech is called and nobody waits for its end
text_to_speech ==
    /\ Len(playback) < MaxPlayback
    /\ playback' = Spoken(playback, 1)
    /\ UNCHANGED <<audio_playing, ready_to_listen>>
    /\ PlaybackStep("text_to_speech")

\* webapp.py lines 163-165 and text_to_speech.py lines 80-83: the waiter of the
\* k-th playback reads the flag as false and emits ready_to_listen
ReadyToListen(k) ==
    /\ k \in 1..Len(playback)
    /\ playback[k].waiter
    /\ ~audio_playing
    /\ ready_to_listen' = playback[k].st
    /\ playback' = IF playback[k].st = "done" THEN Without(playback, k)
                   ELSE [playback EXCEPT ![k].waiter = FALSE]
    /\ UNCHANGED audio_playing
    /\ PlaybackStep("ready_to_listen")

InitPlayback == InitNLU /\ DriverIdle

PlayAndListen == \E tts_ok \in BOOLEAN : play_and_listen(tts_ok)

Emit == \E k \in 1..MaxPlayback : ReadyToListen(k)

NextPlayback == PlayAndListen \/ text_to_speech \/ PlayAudio \/ Emit

SpecPlayback == InitPlayback /\ [][NextPlayback]_vars

\* the threads that were started, with or without a waiter, when the last call
\* of text_to_speech has returned
StartedTasks ==
    UNION {[1..n -> {Task(TRUE), Task(FALSE)}] : n \in 0..MaxPlayback}

InitDrain ==
    /\ InitNLU
    /\ call_active = FALSE
    /\ waiting_for_callback_choice = FALSE
    /\ n8n_client = FALSE
    /\ N8N_WEBHOOK_URL = FALSE
    /\ webhook_posts = 0
    /\ stream = "None"
    /\ audio_queue = <<>>
    /\ captured = 0
    /\ listening = "not_started"
    /\ rec = NoRecognition
    /\ callback_calls = 0
    /\ final = NoFinal
    /\ in_flight = <<>>
    /\ audio_playing = FALSE
    /\ playback \in StartedTasks
    /\ ready_to_listen = "none"

NextDrain == PlayAudio \/ Emit

\* every play_audio thread and every polling thread is scheduled again and again
SpecDrain == InitDrain /\ [][NextDrain]_vars /\ WF_vars(PlayAudio) /\ WF_vars(Emit)

----------------------------------------------------------------------------
(* Successive merges into the claim record *)

\* line 140: the number of history lines a request carries
HistoryWindow == 6

\* line 140: self.conversation_history[-6:]
RecentHistory(h) ==
    IF Len(h) <= HistoryWindow THEN h ELSE SubSeq(h, Len(h) - HistoryWindow + 1, Len(h))

Unknown == <<"unknown">>

\* extracted fields of results that follow one another in a call
MergePayloads ==
    {PolicyAndName, Incident, NewLocation, Optional,
     ("description" :> <<"it", "was", "dark">>),
     ("location" :> Unknown),
     ("policyId" :> Unknown) @@ ("estimatedDamage" :> <<"900">>)}

MergeOutcomes ==
    {Ok(FALSE, fs, cd, "GATHERING_INCIDENT_DETAILS") : fs \in {0, 3}, cd \in MergePayloads}

MergeTurn ==
    \E r \in MergeOutcomes : ServiceTurn(OrdinaryUtterance, r) /\ UNCHANGED <<driver_vars, tts_vars>>

\* lines 135-141 and 164: the request shows the service the stored claim record,
\* and the result returns the description as the request showed it
EchoOutcome(cd) ==
    Ok(FALSE, 0, ("description" :> cd["description"]), "GATHERING_INCIDENT_DETAILS")

EchoTurn ==
    /\ Truthy(claim_data["description"])
    /\ ServiceTurn(OrdinaryUtterance, EchoOutcome(claim_data))
    /\ UNCHANGED <<driver_vars, tts_vars>>

NextMerge == MergeTurn \/ EchoTurn \/ ProcessInputReview

SpecMerge == Init /\ [][NextMerge]_vars

----------------------------------------------------------------------------
(* Claims *)

Terminal == {"COMPLETE", "EMERGENCY_TRANSFER"}

\* the last turn's result carried a null, empty or "null" value for field f
ReturnedEmpty(r, f) ==
    f \in DOMAIN r.claim_data /\ r.claim_data[f] \in {None, <<>>, NullText}

\* C1: in every process_input turn a claim field that holds a non-empty value
\* still holds a non-empty value afterwards, and a field for which the service
\* returned null, "" or "null" keeps its stored value.
C1_PopulatedNeverCleared ==
    [][op' = "process_input" =>
        \A f \in ClaimFields :
            /\ (Truthy(claim_data[f]) => Truthy(claim_data'[f]))
            /\ (ReturnedEmpty(svc', f) => claim_data'[f] = claim_data[f])]_vars

C1_Witness ==
    /\ op = "process_input"
    /\ svc.kind = "ok"
    /\ \E f \in ClaimFields : ReturnedEmpty(svc, f) /\ Truthy(claim_data[f])

\* C2: a turn taken in TO_REVIEW ends in COMPLETE with is_complete true when the
\* utterance matches an affirmative keyword, in GATHERING_INCIDENT_DETAILS when it
\* matches only a negative keyword, and stays in TO_REVIEW with the confirmation
\* re-prompt when it matches neither.
C2_ReviewClassifier ==
    [][(state = "TO_REVIEW" /\ op' = "process_input") =>
        LET lc == Strip(Lower(user_text'))
        IN  /\ is_affirmative(lc) => (state' = "COMPLETE" /\ ret'.is_complete)
            /\ (is_negative(lc) /\ ~is_affirmative(lc)) =>
                   (state' = "GATHERING_INCIDENT_DETAILS" /\ ~ret'.is_complete)
            /\ (~is_negative(lc) /\ ~is_affirmative(lc)) =>
                   (state' = "TO_REVIEW" /\ ret'.response = PLEASE_CONFIRM)]_vars

C2_Witness ==
    /\ op = "process_input"
    /\ svc_calls = 0
    /\ state = "COMPLETE"
    /\ ret.is_complete
    /\ is_negative(Strip(Lower(user_text)))

\* C3: once the state is COMPLETE or EMERGENCY_TRANSFER no process_input turn
\* changes it.
C3_TerminalStatesAbsorbing ==
    [][(state \in Terminal /\ op' = "process_input") => state' = state]_vars

\* C4: a process_input turn never moves the state to an earlier state of the
\* progression, except from TO_REVIEW to GATHERING_INCIDENT_DETAILS.
C4_StateMonotonic ==
    [][op' = "process_input" =>
        \/ StateRank(state') >= StateRank(state)
        \/ (state = "TO_REVIEW" /\ state' = "GATHERING_INCIDENT_DETAILS")]_vars

\* C5: a turn that enters TO_REVIEW passed the completion check: the five
\* required fields are present, no emergency was flagged and the score is not
\* above the threshold.
C5_ReviewOnlyByCompletionCheck ==
    [][(op' = "process_input" /\ state # "TO_REVIEW" /\ state' = "TO_REVIEW") =>
        /\ check_claim_completion(claim_data')
        /\ ~svc'.emergency_detected
        /\ frustration_score' <= FrustrationThreshold]_vars

\* C6: in every non-terminal state a turn whose utterance signals an emergency
\* (and whose service result, when the service is consulted, flags it) ends in
\* EMERGENCY_TRANSFER with should_transfer true.
C6_EmergencyInEveryState ==
    [][(/\ op' = "process_input"
        /\ state \notin Terminal
        /\ SignalsEmergency(user_text')
        /\ (svc_calls' = 1 => (svc'.emergency_detected /\ ~TurnRaises(svc')))) =>
        (state' = "EMERGENCY_TRANSFER" /\ ret'.should_transfer)]_vars

\* C7: a turn whose service call or result processing raises returns the fixed
\* apology with should_transfer true, reason "technical_error" and is_complete
\* false, leaves the dialogue state as it was, and called the service once.
C7_TechnicalError ==
    [][(op' = "process_input" /\ TurnRaises(svc')) =>
        /\ ret'.response = APOLOGY
        /\ ret'.should_transfer
        /\ ret'.transfer_reason = TECHNICAL_ERROR
        /\ ~ret'.is_complete
        /\ state' = state
        /\ ret'.state = StateValue(state)
        /\ svc_calls' = 1]_vars

C7_Witness ==
    /\ op = "process_input"
    /\ svc.kind = "timeout"
    /\ state = "GATHERING_INCIDENT_DETAILS"
    /\ ret.response = APOLOGY

\* C8: the completion check answers true exactly when policyId, customerName,
\* incidentType, description and location are all non-empty, whatever
\* estimatedDamage and incidentDate hold.
C8_CompleteIffFiveRequired ==
    op = "check" =>
        (completion <=>
            \A f \in {"policyId", "customerName", "incidentType", "description",
                      "location"} : claim_data[f] \notin {None, <<>>})

C8_Witness ==
    /\ op = "check"
    /\ completion
    /\ claim_data["estimatedDamage"] = None
    /\ claim_data["incidentDate"] = None

\* C9: the session's frustration score and the score of the returned result lie
\* in [0,10].
C9_ScoreInRange ==
    /\ frustration_score \in 0..10
    /\ ret.frustration_score \in 0..10

\* C10 as stated: the result of a turn has should_transfer true exactly when
\* the score after the turn is above the threshold.
C10_TransferIffFrustrated ==
    op = "process_input" =>
        (ret.should_transfer <=> frustration_score > FrustrationThreshold)

\* C10 amended: the result of a turn has should_transfer true exactly when the
\* score after the turn is above the threshold, the service flagged an
\* emergency, or the turn ended in the technical-error path.
C10_TransferCauses ==
    op = "process_input" =>
        (ret.should_transfer <=>
            \/ frustration_score > FrustrationThreshold
            \/ (svc_calls = 1 /\ (TurnRaises(svc) \/ svc.emergency_detected)))

C10_Witness ==
    /\ op = "process_input"
    /\ ret.should_transfer
    /\ ret.response = FRUSTRATION_HANDOFF
    /\ frustration_score = 6

\* C11: a turn whose service result carries an unknown next-state name, or no
\* name, does not end in the technical-error result and keeps the state the
\* session had, unless one of the priority checks of the turn moves it.
C11_UnknownStateKeepsCurrent ==
    [][(/\ op' = "process_input"
        /\ svc'.kind = "ok"
        /\ svc'.conversation_state \notin ConversationState) =>
        /\ ret'.transfer_reason # TECHNICAL_ERROR
        /\ state' \in {state, "EMERGENCY_TRANSFER", "TO_REVIEW"}]_vars

\* C12: a turn outside the review state whose merge leaves the five required
\* fields present, without an emergency, with a score not above the threshold
\* and with neither the session nor the suggested state being TO_REVIEW or
\* COMPLETE, ends in TO_REVIEW with should_transfer false, is_complete false and
\* the confirmation summary as its response.
C12_CompleteClaimEntersReview ==
    [][(/\ op' = "process_input"
        /\ svc'.kind = "ok"
        /\ check_claim_completion(claim_data')
        /\ ~svc'.emergency_detected
        /\ frustration_score' <= FrustrationThreshold
        /\ state \notin {"TO_REVIEW", "COMPLETE"}
        /\ svc'.conversation_state \notin {"TO_REVIEW", "COMPLETE"}) =>
        /\ state' = "TO_REVIEW"
        /\ ~ret'.should_transfer
        /\ ~ret'.is_complete
        /\ ret'.response = ConfirmText(claim_data')]_vars

\* C13: in a turn that does not raise, a flagged emergency decides the result
\* whatever the score is (the transfer reason is the emergency reason), a score
\* above the threshold decides it when no emergency is flagged, and the
\* completion check moves the state to TO_REVIEW only when neither applies.
C13_PriorityOrder ==
    [][(op' = "process_input" /\ svc_calls' = 1 /\ ~TurnRaises(svc')) =>
        /\ svc'.emergency_detected =>
              /\ state' = "EMERGENCY_TRANSFER"
              /\ ret'.response = URGENT_HANDOFF
              /\ ret'.transfer_reason = svc'.emergency_reason
        /\ (~svc'.emergency_detected /\ frustration_score' > FrustrationThreshold) =>
              /\ state' = "EMERGENCY_TRANSFER"
              /\ ret'.response = FRUSTRATION_HANDOFF
        /\ (svc'.emergency_detected \/ frustration_score' > FrustrationThreshold) =>
              /\ ret'.should_transfer
              /\ ret'.response # ConfirmText(claim_data')]_vars

\* C13 witness: an emergency was flagged in a turn whose score is above the
\* threshold and whose claim record has the five required fields.
C13_Witness ==
    /\ op = "process_input"
    /\ svc.kind = "ok"
    /\ svc.emergency_detected
    /\ frustration_score > FrustrationThreshold
    /\ check_claim_completion(claim_data)
    /\ ret.transfer_reason = <<"injury">>
    /\ state = "EMERGENCY_TRANSFER"

\* C14: a turn that begins in the review state never calls the understanding
\* service.
C14_ReviewNeverCallsService ==
    [][(state = "TO_REVIEW" /\ op' = "process_input") =>
        (svc_calls' = 0 /\ svc' = NotCalled)]_vars

\* C14 witness: a review turn was processed and no service call was made.
C14_Witness ==
    /\ op = "process_input"
    /\ svc_calls = 0
    /\ ret.response \in {CLAIM_CREATED, WHICH_DETAIL, PLEASE_CONFIRM}

\* C15: a turn that begins in the review state leaves every claim field and the
\* frustration score as they were, and the location changes in a turn only to a
\* non-empty value that the service result of that turn supplies.
C15_ReviewKeepsClaim ==
    [][op' = "process_input" =>
        /\ state = "TO_REVIEW" =>
              (claim_data' = claim_data /\ frustration_score' = frustration_score)
        /\ claim_data'["location"] # claim_data["location"] =>
              /\ svc'.kind = "ok"
              /\ "location" \in DOMAIN svc'.claim_data
              /\ svc'.claim_data["location"] \notin {None, <<>>, NullText}
              /\ claim_data'["location"] = svc'.claim_data["location"]]_vars

\* C15 witness: the confirmation was rejected with "no, my location is wrong"
\* and the location still has the value it had.
C15_Witness ==
    /\ op = "process_input"
    /\ user_text = <<"no", "my", "location", "is", "wrong">>
    /\ ret.response = WHICH_DETAIL
    /\ state = "GATHERING_INCIDENT_DETAILS"
    /\ claim_data["location"] = <<"5th Ave">>

\* the service result r carries a value for field f that the merge stores
Carried(r, f) ==
    /\ f \in DOMAIN r.claim_data
    /\ r.claim_data[f] \notin {None, <<>>, NullText}

\* the record cd holds the value r carries for field f
Stored(cd, r, f, score) ==
    IF f = "description" THEN cd[f] = TagDescription(score, r.claim_data[f])
    ELSE cd[f] = r.claim_data[f]

\* C17: after a turn that ends in the technical-error result the claim record
\* is either the record the turn began with or a record that holds every value
\* the service result carried.
C17_MergeAllOrNothing ==
    [][(op' = "process_input" /\ ret'.transfer_reason = TECHNICAL_ERROR) =>
        \/ claim_data' = claim_data
        \/ /\ svc'.kind = "ok"
           /\ \A f \in ClaimFields :
                 Carried(svc', f) => Stored(claim_data', svc', f, frustration_score')]_vars

\* C17 witness: a turn ended in the technical-error result after its three
\* extracted fields were merged.
C17_Witness ==
    /\ op = "process_input"
    /\ ret.transfer_reason = TECHNICAL_ERROR
    /\ svc.kind = "ok"
    /\ svc.claim_data = Incident
    /\ \A f \in DOMAIN Incident : Stored(claim_data, svc, f, frustration_score)

\* C18: a turn whose service result does not conform returns the same result
\* and leaves the same dialogue state, claim record and frustration score as a
\* turn whose service call fails.
C18_NonConformingAsFailure ==
    [][(op' = "process_input" /\ svc_calls' = 1 /\ TurnRaises(svc')) =>
        /\ ret' = ErrorResult(frustration_score, claim_data, state)
        /\ state' = state
        /\ claim_data' = claim_data
        /\ frustration_score' = frustration_score]_vars

\* C16: a webhook post is the first of its call and is made by a turn that
\* left the session in COMPLETE without asking for a transfer.
C16_WebhookOnceOnComplete ==
    [][webhook_posts' > webhook_posts =>
        /\ webhook_posts = 0
        /\ state' = "COMPLETE"
        /\ ~ret'.should_transfer]_vars

\* C19: a loop iteration whose recognizer result is partial does not call the
\* callback and leaves state, claim record, score and history as they were;
\* an iteration enters process_input exactly when the result is final and its
\* text is not empty after stripping, and then with that text.
C19_PartialsNeverProcessed ==
    [][op' \in {"listen", "call_service", "process_input"} =>
        /\ rec'.partial =>
              /\ callback_calls' = 0
              /\ op' = "listen"
              /\ UNCHANGED <<state, claim_data, frustration_score, conversation_history>>
        /\ (op' \in {"call_service", "process_input"}) <=>
              (~rec'.partial /\ Strip(rec'.text) # <<>>)
        /\ (op' \in {"call_service", "process_input"}) => user_text' = Strip(rec'.text)
        /\ (op' = "call_service") =>
              conversation_history' = Append(conversation_history, "CALLER")]_vars

\* C19 witness: while the session waited in the review state the recognizer
\* returned the partial text "Yes", and the session still waits.
C19_Witness ==
    /\ op = "listen"
    /\ rec.partial
    /\ rec.text = <<"Yes">>
    /\ state = "TO_REVIEW"
    /\ call_active

\* C20: at most one turn is in progress at any time, and the turns end in the
\* order in which their transcripts arrived.
C20_OneTurnAtATime ==
    [][/\ Len(in_flight') <= 1
       /\ Len(in_flight') < Len(in_flight) => in_flight' = Tail(in_flight)]_vars

\* C28: a turn that changes the description stores the text its service result
\* carries behind the tag of the score recorded in that turn, and a turn whose
\* result carries no description leaves the stored description as it was.
C28_DescriptionTagKept ==
    [][op' = "process_input" =>
        /\ claim_data'["description"] # claim_data["description"] =>
              /\ Carried(svc', "description")
              /\ claim_data'["description"] =
                     <<"[Frustration Score:", ToString(frustration_score'), "/10]">>
                     \o svc'.claim_data["description"]
        /\ "description" \notin DOMAIN svc'.claim_data =>
              claim_data'["description"] = claim_data["description"]]_vars

\* C28 witness: the description was captured at score 0, and a later turn with
\* score 3 that carried only a location left it, tag included, as it was.
C28_Witness ==
    /\ op = "process_input"
    /\ svc.kind = "ok"
    /\ svc.claim_data = NewLocation
    /\ frustration_score = 3
    /\ claim_data["location"] = <<"Main St">>
    /\ claim_data["description"] = <<"[Frustration Score:", "0", "/10]", "car was hit">>

\* C29: a turn whose service result carries "unknown" for a populated field
\* leaves that field as it was.
C29_UnknownNeverOverwrites ==
    [][op' = "process_input" =>
        \A f \in ClaimFields :
            (/\ claim_data[f] # None
             /\ f \in DOMAIN svc'.claim_data
             /\ svc'.claim_data[f] = Unknown) => claim_data'[f] = claim_data[f]]_vars

\* C30: the history never holds more lines than the window of six lines that a
\* service request carries.
C30_HistoryBounded ==
    /\ Len(conversation_history) <= HistoryWindow
    /\ Len(RecentHistory(conversation_history)) <= HistoryWindow

\* C22: at most one play_audio thread is playing at any time, and the flag is
\* true whenever a thread is playing.
C22_OnePlaybackAtATime ==
    LET playing == {k \in 1..Len(playback) : playback[k].st = "playing"}
    IN  /\ Cardinality(playing) <= 1
        /\ playing # {} => audio_playing

\* C24: after a turn the pipeline has stopped listening if and only if the
\* state after the turn is COMPLETE or EMERGENCY_TRANSFER.
C24_StopsIffTerminal ==
    [][op' = "process_input" => ((stream' = "None") <=> (state' \in Terminal))]_vars

\* C25: once start_listening has returned the capture stream is not active.
C25_StreamReleased ==
    listening = "returned" => stream = "None"

\* C25 witness: start_listening has returned because the loop raised.
C25_Witness ==
    /\ listening = "returned"
    /\ op = "loop_error"
    /\ stream = "None"
    /\ captured > 0

\* C26: the blocks that the device delivered and the loop has not taken are
\* all in the queue, oldest first, also while a turn waits for the
\* understanding service.
C26_NoBlockDropped ==
    audio_queue = [i \in 1..(captured - rec.block) |-> rec.block + i]

\* C26 witness: a block was captured and queued while the callback waited for
\* the understanding service.
C26_Witness ==
    /\ listening = "in_call"
    /\ op = "capture"
    /\ Len(audio_queue) >= 2
    /\ audio_queue[Len(audio_queue)] = captured

\* C27: once the call handler has left start_listening no play_audio thread is
\* waiting or playing and the flag is false.
C27_NoPlaybackAfterCall ==
    listening = "returned" => (playback = <<>> /\ ~audio_playing)

\* C21: every ready_to_listen event follows the end of the playback that its
\* _play_and_listen thread started.
C21_ReadyAfterPlayback ==
    ready_to_listen \in {"none", "done"}

\* C23: after a turn the call is active exactly when it was active before and
\* the result does not ask for a transfer, whether or not text_to_speech
\* raised in the turn.
C23_PlaybackFailureNonFatal ==
    [][op' = "process_input" =>
        call_active' = (call_active /\ ~ret'.should_transfer)]_vars

\* C31: when get_audio_data or process_audio raises in the loop, start_listening
\* is left and a playback of the apology is started.
C31_RecognitionFailureApology ==
    [][op' = "loop_error" =>
        (listening' = "returned" /\ playback' = Spoken(playback, 1))]_vars

\* C32: reset leaves the session in state GREETING with all seven claim fields
\* null, score 0 and an empty history, and the turn that follows a reset ends
\* as the first turn of a new session ends for the same utterance and the same
\* answer of the service.
C32_ResetRestoresInitial ==
    [][/\ op' = "reset" =>
            /\ state' = "GREETING"
            /\ claim_data' = [f \in ClaimFields |-> None]
            /\ frustration_score' = 0
            /\ conversation_history' = <<>>
       /\ (op = "reset" /\ op' = "process_input") =>
            LET fs == ScoreAfter(0, svc')
                cd == ClaimAfter([f \in ClaimFields |-> None], svc', fs)
            IN  /\ svc_calls' = 1
                /\ frustration_score' = fs
                /\ claim_data' = cd
                /\ state' = StateAfter("GREETING", svc', cd, fs)
                /\ ret' = ServiceResult("GREETING", svc', cd, fs)
                /\ conversation_history' = HistoryAfter(<<>>, svc', cd, fs)]_vars

\* C32 witness: the session was reset after the caller had confirmed a claim,
\* and the next turn stored the policy and the name in the empty record.
C32_Witness ==
    /\ op = "process_input"
    /\ confirm_attempts = <<0>>
    /\ Len(conversation_history) = 2
    /\ claim_data = [[f \in ClaimFields |-> None] EXCEPT
                        !["policyId"] = <<"PL-100">>, !["customerName"] = <<"Jane Doe">>]

\* C33: whenever the result of the last turn reports is_complete true, the
\* session state is COMPLETE.
C33_CompleteFlagMeansCompleteState ==
    ret.is_complete => state = "COMPLETE"

\* C34: a step that leaves the session in state COMPLETE leaves the five
\* required fields non-empty, and a step that enters COMPLETE is a turn in
\* TO_REVIEW with an affirmative utterance.
C34_CompleteOnlyByAffirmation ==
    [][state' = "COMPLETE" =>
        /\ check_claim_completion(claim_data')
        /\ state # "COMPLETE" =>
              /\ state = "TO_REVIEW"
              /\ op' = "process_input"
              /\ is_affirmative(Strip(Lower(user_text')))]_vars

\* C35: no result has both should_transfer true and is_complete true.
C35_NeverTransferAndComplete ==
    ~(ret.should_transfer /\ ret.is_complete)

\* C35 witness: a turn on a complete claim record ended in the technical-error
\* path, and its result asks for the transfer without reporting completion.
C35_Witness ==
    /\ op = "process_input"
    /\ svc.kind = "timeout"
    /\ check_claim_completion(claim_data)
    /\ ret.should_transfer
    /\ ~ret.is_complete

\* the number of score tags in a text
TagCount(v) == Cardinality({i \in 1..Len(v) : v[i] = "[Frustration Score:"})

\* C36: a stored description that is not empty carries exactly one score tag.
C36_OneTagOnly ==
    Truthy(claim_data["description"]) => TagCount(claim_data["description"]) = 1

\* C37: a final result with text goes to the callback, both when the loop got
\* it from process_audio and when stop_listening got it from the recognizer.
C37_EveryFinalDelivered ==
    /\ (~rec.partial /\ rec.text # <<>>) => callback_calls = 1
    /\ final.text # <<>> => final.sink = "callback"

\* C38: when no further playback is started, the flag is eventually false and
\* stays false, and no thread is left that waits for it.
C38_FlagEventuallyClear ==
    <>[](~audio_playing /\ playback = <<>>)

\* C38 witness: the last playback has ended, the flag is false and the thread
\* that polled it has emitted ready_to_listen.
C38_Witness ==
    /\ op = "ready_to_listen"
    /\ ready_to_listen = "done"
    /\ playback = <<>>
    /\ ~audio_playing

\* C39: whenever the stream has been stopped after listening began,
\* start_listening eventually returns.
C39_LoopTerminates ==
    [](stream = "None" /\ listening # "not_started" => <>(listening = "returned"))

====
